---- MODULE Spec2Model ----
(***************************************************************************)
(* MediSnap OCR API (src/app.py): one request to POST /extract.            *)
(*                                                                         *)
(* Texts are sequences of tokens.  A token is one lexical unit of the AI   *)
(* reply: a brace, a bracket, a comma, a key with its colon ("drugs:"), a  *)
(* scalar literal, or a word of prose.  JSON values are tagged records.    *)
(***************************************************************************)
EXTENDS Integers, Sequences, FiniteSets, TLC

----------------------------------------------------------------------------
(* Bounds *)

\* longest enumerated AI reply, in tokens
MaxLen == 6
\* most items an image-search answer carries
MaxItems == 2

----------------------------------------------------------------------------
(* JSON values, as json.loads builds them *)

JNull == [t |-> "null"]
JNaN == [t |-> "nan"]
JStr(s) == [t |-> "str", s |-> s]
JList(l) == [t |-> "list", l |-> l]
JDict(d) == [t |-> "dict", d |-> d]

EmptyDict == [k \in {} |-> JNull]

\* d[key] = v, a later duplicate key replacing an earlier one
Put(d, key, v) == [k \in (DOMAIN d) \cup {key} |-> IF k = key THEN v ELSE d[k]]

KeyTokens ==
    {"drugs:", "name:", "image_url:", "diagnosis:", "benefits:", "dos_donts:",
     "possible_conditions:"}

KeyOf(tok) ==
    CASE tok = "drugs:" -> "drugs"
      [] tok = "name:" -> "name"
      [] tok = "image_url:" -> "image_url"
      [] tok = "diagnosis:" -> "diagnosis"
      [] tok = "benefits:" -> "benefits"
      [] tok = "dos_donts:" -> "dos_donts"
      [] tok = "possible_conditions:" -> "possible_conditions"

\* "s" is the literal "s", "e" the literal "", "q" the literal "}" (a string
\* holding a closing brace), "NaN" the float literal json.loads accepts
ScalarTokens == {"s", "e", "q", "null", "NaN"}

ScalarValue(tok) ==
    CASE tok = "s" -> JStr("s")
      [] tok = "e" -> JStr("")
      [] tok = "q" -> JStr("}")
      [] tok = "null" -> JNull
      [] tok = "NaN" -> JNaN

Tok(toks, i) == IF i \in 1..Len(toks) THEN toks[i] ELSE "EOF"

ParseFail == [ok |-> FALSE, val |-> JNull, next |-> 0]
ParseOk(v, n) == [ok |-> TRUE, val |-> v, next |-> n]

RECURSIVE ParseValue(_, _)
RECURSIVE ParseMembers(_, _, _)
RECURSIVE ParseElements(_, _, _)

\* one JSON value starting at token i
ParseValue(toks, i) ==
    LET t == Tok(toks, i) IN
    IF t \in ScalarTokens THEN ParseOk(ScalarValue(t), i + 1)
    ELSE IF t = "{" THEN
        IF Tok(toks, i + 1) = "}" THEN ParseOk(JDict(EmptyDict), i + 2)
        ELSE ParseMembers(toks, i + 1, EmptyDict)
    ELSE IF t = "[" THEN
        IF Tok(toks, i + 1) = "]" THEN ParseOk(JList(<<>>), i + 2)
        ELSE ParseElements(toks, i + 1, <<>>)
    ELSE ParseFail

\* key value ("," key value)* "}"
ParseMembers(toks, i, d) ==
    IF Tok(toks, i) \notin KeyTokens THEN ParseFail
    ELSE LET r == ParseValue(toks, i + 1) IN
         IF ~r.ok THEN ParseFail
         ELSE LET d2 == Put(d, KeyOf(Tok(toks, i)), r.val)
                  t == Tok(toks, r.next)
              IN  IF t = "}" THEN ParseOk(JDict(d2), r.next + 1)
                  ELSE IF t = "," THEN ParseMembers(toks, r.next + 1, d2)
                  ELSE ParseFail

\* value ("," value)* "]"
ParseElements(toks, i, l) ==
    LET r == ParseValue(toks, i) IN
    IF ~r.ok THEN ParseFail
    ELSE LET l2 == Append(l, r.val)
             t == Tok(toks, r.next)
         IN  IF t = "]" THEN ParseOk(JList(l2), r.next + 1)
             ELSE IF t = "," THEN ParseElements(toks, r.next + 1, l2)
             ELSE ParseFail

\* json.loads: the whole text is one value, nothing after it
Loads(toks) ==
    LET r == ParseValue(toks, 1) IN
    IF r.ok /\ r.next = Len(toks) + 1 THEN [ok |-> TRUE, val |-> r.val]
    ELSE [ok |-> FALSE, val |-> JNull]

----------------------------------------------------------------------------
(* re.search(r'\{.*\}', text, re.DOTALL) *)

\* the regex works on characters: the literal "}" carries a closing brace
HasOpen(tok) == tok = "{"
HasClose(tok) == tok \in {"}", "q"}

Opens(toks) == {i \in 1..Len(toks) : HasOpen(toks[i])}
Closes(toks) == {i \in 1..Len(toks) : HasClose(toks[i])}

MinOf(S) == CHOOSE m \in S : \A n \in S : m <= n
MaxOf(S) == CHOOSE m \in S : \A n \in S : m >= n

\* the non-greedy pattern \{.*?\}: from the first "{" to the first "}" after it
SearchBracesLazy(toks) ==
    LET after == {b \in Closes(toks) : Opens(toks) # {} /\ b > MinOf(Opens(toks))} IN
    IF after = {} THEN [found |-> FALSE, span |-> <<>>]
    ELSE LET a == MinOf(Opens(toks))
             b == MinOf(after)
         IN  [found |-> TRUE,
              span |-> [j \in 1..(b - a + 1) |->
                          IF j = b - a + 1 /\ toks[b] = "q" THEN "cut"
                          ELSE toks[a + j - 1]]]

\* greedy: from the first "{" to the last "}" after it.  A match that ends
\* at the brace inside the literal "}" cuts that literal before its closing
\* quote, which leaves a token no JSON value contains.
SearchBraces(toks) ==
    IF Opens(toks) = {} \/ Closes(toks) = {} THEN [found |-> FALSE, span |-> <<>>]
    ELSE LET a == MinOf(Opens(toks))
             b == MaxOf(Closes(toks))
         IN  IF b < a THEN [found |-> FALSE, span |-> <<>>]
             ELSE [found |-> TRUE,
                   span |-> [j \in 1..(b - a + 1) |->
                               IF j = b - a + 1 /\ toks[b] = "q" THEN "cut"
                               ELSE toks[a + j - 1]]]

----------------------------------------------------------------------------
(* extract_data_from_image, lines 64-76: the reply text to a value *)

Returned(v) == [raised |-> FALSE, val |-> v, exc |-> ""]
Raised(e) == [raised |-> TRUE, val |-> JNull, exc |-> e]

\* the lenient policy: an empty record in place of the error
ParseReplyLenient(reply) ==
    IF Loads(reply).ok THEN Returned(Loads(reply).val)
    ELSE LET m == SearchBraces(reply) IN
         IF m.found /\ Loads(m.span).ok THEN Returned(Loads(m.span).val)
         ELSE Returned(JDict(Put(Put(EmptyDict, "drugs", JList(<<>>)), "diagnosis", JStr(""))))

ParseReply(reply) ==
    IF Loads(reply).ok THEN Returned(Loads(reply).val)
    ELSE LET m == SearchBraces(reply) IN
         IF m.found /\ Loads(m.span).ok THEN Returned(Loads(m.span).val)
         ELSE Raised("ValueError: Failed to parse Gemini response as JSON")

----------------------------------------------------------------------------
(* is_valid_capsule_image, lines 86-87: the verdict text, by character *)

Lower(c) ==
    CASE c = "Y" -> "y"
      [] c = "E" -> "e"
      [] c = "S" -> "s"
      [] c = "N" -> "n"
      [] c = "O" -> "o"
      [] OTHER -> c

LowerAll(s) == [j \in 1..Len(s) |-> Lower(s[j])]

RECURSIVE Strip(_)
Strip(s) ==
    IF s = <<>> THEN s
    ELSE IF Head(s) = " " THEN Strip(Tail(s))
    ELSE IF s[Len(s)] = " " THEN Strip(SubSeq(s, 1, Len(s) - 1))
    ELSE s

Contains(sub, s) ==
    \E j \in 1..(Len(s) - Len(sub) + 1) : SubSeq(s, j, j + Len(sub) - 1) = sub

\* "yes" in check.text.strip().lower()
IsYes(text) == Contains(<<"y", "e", "s">>, LowerAll(Strip(text)))

\* answers the model gives to the yes/no question
Verdicts ==
    { <<"y", "e", "s">>, <<" ", "Y", "E", "S", ".", " ">>, <<"n", "o">>, <<>>,
      <<"e", "y", "e", "s">>, <<"y", "e", " ", "s">> }

----------------------------------------------------------------------------
(* What the request receives from outside *)

\* the uploaded file: an image, bytes that are no image, a stream whose
\* read fails
Uploads == {"image", "not_image", "unreadable"}

\* tokens of the enumerated replies: braces, a word of prose, the literal "}"
\* and one key
Alphabet == {"{", "}", "p", "q", "diagnosis:"}

Texts(n) == UNION {[1..k -> Alphabet] : k \in 0..n}

SchemaTexts ==
    { \* two drugs, the second with an image_url of the model's own
      <<"{", "drugs:", "[", "{", "name:", "s", "}", ",",
        "{", "name:", "q", ",", "image_url:", "s", "}", "]", ",",
        "diagnosis:", "s", "}">>,
      \* the same kind of record inside prose
      <<"p", "{", "drugs:", "[", "{", "}", "]", ",", "benefits:", "s", "}", "p">>,
      \* every key present
      <<"{", "drugs:", "[", "]", ",", "diagnosis:", "s", ",", "benefits:", "s", ",",
        "dos_donts:", "null", ",", "possible_conditions:", "s", "}">>,
      \* a float the response cannot carry
      <<"{", "drugs:", "[", "{", "name:", "null", "}", "]", ",", "diagnosis:", "NaN", "}">>,
      \* values of other shapes
      <<"[", "]">>,
      <<"s">>,
      <<"{", "drugs:", "null", "}">>,
      <<"{", "drugs:", "e", "}">>,
      <<"{", "drugs:", "s", "}">>,
      <<"{", "drugs:", "{", "name:", "s", "}", "}">>,
      <<"{", "drugs:", "[", "{", "name:", "s", "}", ",", "s", "]", "}">> }

ReplyTexts == SchemaTexts \cup Texts(MaxLen)

Urls == {"u1", "u2"}

LinkLists == UNION {[1..k -> Urls] : k \in 1..MaxItems}

\* answers of the image search: the call fails or times out, the answer has
\* no "items", an empty "items", an item without "link", or items with links
SearchOutcomes ==
    { [kind |-> k, links |-> <<>>] : k \in {"error", "no_items_key", "empty", "no_link"} }
    \cup { [kind |-> "items", links |-> l] : l \in LinkLists }

\* the candidate fetch: fails or times out, bytes that are no image, an image
FetchOutcomes == {"error", "not_image", "image"}

----------------------------------------------------------------------------
(* State of one request *)

VARIABLES
    pc,             \* where extract_prescription stands
    upload,         \* the uploaded file
    text,           \* extract_data_from_image: the reply of the model
    extracted_data, \* extract_prescription: the parsed record
    items,          \* the sequence the for loop of line 127 walks
    i,              \* position of the loop in items
    image_url,      \* get_drug_image_url: the candidate of the current drug
    pending,        \* the external call in flight
    calls,          \* every external call issued, in order
    answers,        \* every answer of the image search, in order
    resolved,       \* what get_drug_image_url did for each drug, in order
    responses       \* the responses returned to the caller

vars ==
    <<pc, upload, text, extracted_data, items, i, image_url, pending, calls,
      answers, resolved, responses>>

\* text before line 64 binds it
NoText == <<"unbound">>

\* timeout=10 of requests.get
SearchTimeout == 10
FetchTimeout == 10

NoCall == [kind |-> "none", drug |-> 0, arg |-> JNull, timeout |-> {}]

\* the search request of line 103, for the drug at position n
SearchCall(n, name) ==
    [kind |-> "search", drug |-> n, arg |-> name, timeout |-> {SearchTimeout}]

\* the fetch of line 81
FetchCall(n, url) ==
    [kind |-> "fetch", drug |-> n, arg |-> url, timeout |-> {FetchTimeout}]

\* generate_content of line 63: no timeout is passed
ExtractCall ==
    [kind |-> "model_extract", drug |-> 0, arg |-> JNull, timeout |-> {}]

\* generate_content of line 85: no timeout is passed
VerifyCall(n) ==
    [kind |-> "model_verify", drug |-> n, arg |-> JNull, timeout |-> {}]

Issue(call) ==
    /\ pending' = call
    /\ calls' = Append(calls, call)

\* status_code left at its default
ErrorResponseDefaultStatus(e) ==
    [code |-> 200,
     body |-> [status |-> "error",
               message |-> "Failed to extract data from prescription",
               stack |-> e]]

\* lines 141-147
ErrorResponse(e) ==
    [code |-> 500,
     body |-> [status |-> "error",
               message |-> "Failed to extract data from prescription",
               stack |-> e]]

\* line 136
SuccessResponse(data) ==
    [code |-> 200, body |-> [status |-> "success", data |-> data]]

\* except Exception of line 138: the request ends with the error envelope
Catch(e) ==
    /\ pc' = "done"
    /\ pending' = NoCall
    /\ responses' = Append(responses, ErrorResponse(e))

\* a decode that never fails
ImageOpenUnchecked(bytes) == Returned(JNull)

\* Image.open(io.BytesIO(image_data)), line 121
ImageOpen(bytes) ==
    IF bytes = "image" THEN Returned(JNull)
    ELSE Raised("UnidentifiedImageError")

\* extracted_data.get("drugs", []), line 127
GetDrugs(data) ==
    IF data.t # "dict" THEN Raised("AttributeError: no attribute get")
    ELSE IF "drugs" \in DOMAIN data.d THEN Returned(data.d["drugs"])
    ELSE Returned(JList(<<>>))

RECURSIVE SeqOfSet(_)
SeqOfSet(S) ==
    IF S = {} THEN <<>>
    ELSE LET x == CHOOSE y \in S : TRUE IN <<x>> \o SeqOfSet(S \ {x})

\* a walk from the last element to the first
IterateReversed(v) ==
    CASE v.t = "list" -> Returned(JList([j \in 1..Len(v.l) |-> v.l[Len(v.l) + 1 - j]]))
      [] v.t = "dict" -> Returned(JList([j \in 1..Cardinality(DOMAIN v.d) |->
                                            JStr(SeqOfSet(DOMAIN v.d)[j])]))
      [] v.t = "str" -> Returned(JList(IF v.s = "" THEN <<>> ELSE <<JStr(v.s)>>))
      [] OTHER -> Raised("TypeError: object is not iterable")

\* what "for drug in v" walks: the elements of a list, the keys of a dict,
\* the characters of a string; other values are not iterable
Iterate(v) ==
    CASE v.t = "list" -> Returned(JList(v.l))
      [] v.t = "dict" -> Returned(JList([j \in 1..Cardinality(DOMAIN v.d) |->
                                            JStr(SeqOfSet(DOMAIN v.d)[j])]))
      [] v.t = "str" -> Returned(JList(IF v.s = "" THEN <<>> ELSE <<JStr(v.s)>>))
      [] OTHER -> Raised("TypeError: object is not iterable")

\* drug.get("name", ""), line 128
GetName(drug) ==
    IF drug.t # "dict" THEN Raised("AttributeError: no attribute get")
    ELSE IF "name" \in DOMAIN drug.d THEN Returned(drug.d["name"])
    ELSE Returned(JStr(""))

\* the last item in place of the first
LastLink(answer) ==
    IF answer.kind # "items" THEN Raised("get_drug_image_url: no link")
    ELSE Returned(JStr(answer.links[Len(answer.links)]))

\* response.json()["items"][0]["link"], line 104
FirstLink(answer) ==
    IF answer.kind = "error" THEN Raised("get_drug_image_url: RequestException")
    ELSE IF answer.kind = "no_items_key" THEN Raised("get_drug_image_url: KeyError items")
    ELSE IF answer.kind = "empty" THEN Raised("get_drug_image_url: IndexError")
    ELSE IF answer.kind = "no_link" THEN Raised("get_drug_image_url: KeyError link")
    ELSE Returned(JStr(answer.links[1]))

\* no except clause: the error leaves get_drug_image_url
ResolveExceptRaise(e) == Raised(e)

\* except Exception of line 111: get_drug_image_url returns None
ResolveExcept(e) == Returned(JNull)

\* except Exception of line 88: is_valid_capsule_image returns False
ValidateExcept(e) == Returned(FALSE)

\* the candidate whatever the verdict
AcceptedUrlAlways(url, valid) == url

\* lines 106-110
AcceptedUrl(url, valid) == IF valid THEN url ELSE JNull

Truthy(v) == v.t # "null" /\ ~(v.t = "str" /\ v.s = "")

\* get_drug_image_url(name) or "Not found", line 129
OrNotFound(v) == IF Truthy(v) THEN v ELSE JStr("Not found")

\* drug["image_url"] = url, for the drug at position n of the drugs list
SetImageUrl(data, n, url) ==
    JDict(Put(data.d, "drugs",
              JList([data.d["drugs"].l EXCEPT
                        ![n] = JDict(Put(@.d, "image_url", url))])))

ExpectedKeys == <<"diagnosis", "benefits", "dos_donts", "possible_conditions">>

RECURSIVE FillKeys(_, _)
\* lines 132-134
FillKeys(d, keys) ==
    IF keys = <<>> THEN d
    ELSE FillKeys(IF Head(keys) \in DOMAIN d THEN d ELSE Put(d, Head(keys), JNull),
                  Tail(keys))

Normalize(data) == JDict(FillKeys(data.d, ExpectedKeys))

RECURSIVE HasNaN(_)
HasNaN(v) ==
    CASE v.t = "nan" -> TRUE
      [] v.t = "list" -> \E j \in 1..Len(v.l) : HasNaN(v.l[j])
      [] v.t = "dict" -> \E k \in DOMAIN v.d : HasNaN(v.d[k])
      [] OTHER -> FALSE

\* JSONResponse renders its content with allow_nan=False
Render(data) ==
    IF HasNaN(data) THEN Raised("ValueError: Out of range float values are not JSON compliant")
    ELSE Returned(data)

----------------------------------------------------------------------------
(* The request, step by step *)

Init ==
    /\ pc = "read"
    /\ upload \in Uploads
    /\ text = NoText
    /\ extracted_data = JNull
    /\ items = <<>>
    /\ i = 1
    /\ image_url = JNull
    /\ pending = NoCall
    /\ calls = <<>>
    /\ answers = <<>>
    /\ resolved = <<>>
    /\ responses = <<>>

\* line 120: await file.read()
ReadUpload ==
    /\ pc = "read"
    /\ IF upload = "unreadable"
       THEN Catch("read failed")
       ELSE pc' = "open" /\ UNCHANGED <<pending, responses>>
    /\ UNCHANGED <<upload, text, extracted_data, items, i, image_url, calls, answers, resolved>>

\* lines 121-63: decode the upload, then send prompt and image to the model
OpenImage ==
    /\ pc = "open"
    /\ LET r == ImageOpen(upload) IN
       IF r.raised
       THEN Catch(r.exc) /\ UNCHANGED calls
       ELSE pc' = "extract_wait" /\ Issue(ExtractCall) /\ UNCHANGED responses
    /\ UNCHANGED <<upload, text, extracted_data, items, i, image_url, answers, resolved>>

\* lines 63-76 and 124-127: the model call raises, or its reply is parsed
\* and the loop over the drugs is set up
ExtractReturns ==
    /\ pc = "extract_wait"
    /\ \/ /\ Catch("model call failed")
          /\ UNCHANGED <<text, extracted_data, items, i>>
       \/ \E t \in ReplyTexts :
            /\ text' = t
            /\ LET r == ParseReply(t)
                   g == GetDrugs(r.val)
                   it == Iterate(g.val)
               IN  IF r.raised
                   THEN Catch(r.exc) /\ UNCHANGED <<extracted_data, items, i>>
                   ELSE /\ extracted_data' = r.val
                        /\ IF g.raised
                           THEN Catch(g.exc) /\ UNCHANGED <<items, i>>
                           ELSE IF it.raised
                           THEN Catch(it.exc) /\ UNCHANGED <<items, i>>
                           ELSE /\ items' = it.val.l
                                /\ i' = 1
                                /\ pc' = "loop"
                                /\ pending' = NoCall
                                /\ UNCHANGED responses
    /\ UNCHANGED <<upload, image_url, calls, answers, resolved>>

\* lines 127-128 and 94-103: the next drug, its name, the search request
NextDrug ==
    /\ pc = "loop"
    /\ i <= Len(items)
    /\ LET nm == GetName(items[i]) IN
       IF nm.raised
       THEN Catch(nm.exc) /\ UNCHANGED calls
       ELSE pc' = "search_wait" /\ Issue(SearchCall(i, nm.val)) /\ UNCHANGED responses
    /\ UNCHANGED <<upload, text, extracted_data, items, i, image_url, answers, resolved>>

\* line 129: get_drug_image_url has ended for the drug at position i
ReturnToLoop(result, valid) ==
    IF result.raised
    THEN /\ Catch(result.exc)
         /\ UNCHANGED <<extracted_data, i, image_url, resolved>>
    ELSE /\ extracted_data' = SetImageUrl(extracted_data, i, OrNotFound(result.val))
         /\ resolved' = Append(resolved,
                [drug |-> i, candidate |-> image_url, valid |-> valid,
                 result |-> result.val])
         /\ i' = i + 1
         /\ image_url' = JNull
         /\ pc' = "loop"
         /\ pending' = NoCall
         /\ UNCHANGED responses

\* lines 106-113: is_valid_capsule_image has ended with v
ReturnFromValidate(v) ==
    ReturnToLoop(IF v.raised THEN ResolveExcept(v.exc)
                 ELSE Returned(AcceptedUrl(image_url, v.val)),
                 ~v.raised /\ v.val)

\* lines 103-104, then 81: the search answers; its first link is fetched
SearchReturns ==
    /\ pc = "search_wait"
    /\ \E answer \in SearchOutcomes :
         /\ answers' = Append(answers, answer)
         /\ LET l == FirstLink(answer) IN
            IF l.raised
            THEN ReturnToLoop(ResolveExcept(l.exc), FALSE) /\ UNCHANGED calls
            ELSE /\ image_url' = l.val
                 /\ pc' = "fetch_wait"
                 /\ Issue(FetchCall(i, l.val))
                 /\ UNCHANGED <<extracted_data, i, resolved, responses>>
    /\ UNCHANGED <<upload, text, items>>

\* lines 81-85: the fetch answers; an image goes to the model
FetchReturns ==
    /\ pc = "fetch_wait"
    /\ \E got \in FetchOutcomes :
         IF got # "image"
         THEN ReturnFromValidate(ValidateExcept(
                 IF got = "error" THEN "is_valid_capsule_image: RequestException"
                 ELSE "is_valid_capsule_image: UnidentifiedImageError"))
              /\ UNCHANGED calls
         ELSE /\ pc' = "verify_wait"
              /\ Issue(VerifyCall(i))
              /\ UNCHANGED <<extracted_data, i, image_url, resolved, responses>>
    /\ UNCHANGED <<upload, text, items, answers>>

\* lines 85-90: the model call raises, or its verdict is read
VerifyReturns ==
    /\ pc = "verify_wait"
    /\ \/ ReturnFromValidate(ValidateExcept("is_valid_capsule_image: model call failed"))
       \/ \E verdict \in Verdicts : ReturnFromValidate(Returned(IsYes(verdict)))
    /\ UNCHANGED <<upload, text, items, calls, answers>>

\* lines 131-136: fill the missing keys and answer
Finish ==
    /\ pc = "loop"
    /\ i > Len(items)
    /\ LET r == Render(Normalize(extracted_data)) IN
       /\ extracted_data' = Normalize(extracted_data)
       /\ IF r.raised
          THEN Catch(r.exc)
          ELSE /\ pc' = "done"
               /\ responses' = Append(responses, SuccessResponse(r.val))
               /\ UNCHANGED pending
    /\ UNCHANGED <<upload, text, items, i, image_url, calls, answers, resolved>>

Next ==
    \/ ReadUpload
    \/ OpenImage
    \/ ExtractReturns
    \/ NextDrug
    \/ SearchReturns
    \/ FetchReturns
    \/ VerifyReturns
    \/ Finish

Spec == Init /\ [][Next]_vars

----------------------------------------------------------------------------
(* Properties *)

IsSuccess(r) == r.code = 200 /\ r.body.status = "success"

IsError(r) == r.code = 500 /\ r.body.status = "error" /\ r.body.message # ""

Succeeded == pc = "done" /\ Len(responses) = 1 /\ IsSuccess(responses[1])

\* the drugs list of a record, empty when the record has none
DrugList(data) ==
    IF data.t = "dict" /\ "drugs" \in DOMAIN data.d /\ data.d["drugs"].t = "list"
    THEN data.d["drugs"].l
    ELSE <<>>

DocumentedKeys == {"drugs", "diagnosis", "benefits", "dos_donts", "possible_conditions"}

\* C1: every success response carries all five documented top-level keys in
\* its data, a key the model omitted being present with null.
C1_AllDocumentedKeysPresent ==
    \A k \in 1..Len(responses) :
        IsSuccess(responses[k]) =>
            /\ responses[k].body.data.t = "dict"
            /\ DocumentedKeys \subseteq DOMAIN responses[k].body.data.d

\* C2: in a success response the image_url of each drug entry is "Not found"
\* or a link that the search of this request returned for that entry and
\* that is_valid_capsule_image accepted; a value the model supplied is gone.
C2_ImageUrlVerifiedOrNotFound ==
    \A k \in 1..Len(responses) :
        IsSuccess(responses[k]) =>
            LET ds == DrugList(responses[k].body.data) IN
            \A n \in 1..Len(ds) :
                /\ ds[n].t = "dict"
                /\ "image_url" \in DOMAIN ds[n].d
                /\ \/ ds[n].d["image_url"] = JStr("Not found")
                   \/ /\ n <= Len(resolved)
                      /\ n <= Len(answers)
                      /\ resolved[n].valid
                      /\ resolved[n].candidate = ds[n].d["image_url"]
                      /\ answers[n].kind = "items"
                      /\ \E j \in 1..Len(answers[n].links) :
                            ds[n].d["image_url"] = JStr(answers[n].links[j])

\* a success whose first drug got an accepted link and whose second drug,
\* for which the model had supplied an image_url, had its candidate rejected
C2_Witness ==
    /\ Succeeded
    /\ Len(resolved) = 2
    /\ resolved[1].valid
    /\ DrugList(responses[1].body.data)[1].d["image_url"] \in {JStr(u) : u \in Urls}
    /\ "image_url" \in DOMAIN items[2].d
    /\ resolved[2].candidate # JNull
    /\ ~resolved[2].valid
    /\ DrugList(responses[1].body.data)[2].d["image_url"] = JStr("Not found")

\* the errors that end the resolution of one drug
ResolutionErrors ==
    {"get_drug_image_url: RequestException", "get_drug_image_url: KeyError items",
     "get_drug_image_url: IndexError", "get_drug_image_url: KeyError link",
     "is_valid_capsule_image: RequestException",
     "is_valid_capsule_image: UnidentifiedImageError",
     "is_valid_capsule_image: model call failed"}

\* C3: a failure while resolving one drug never reaches the endpoint: no
\* error response reports it, the drug gets "Not found", the loop goes on to
\* the next drug, and a success response comes only after every drug of the
\* list was resolved.
C3_ResolutionFailureDegrades ==
    /\ \A k \in 1..Len(responses) :
          responses[k].code # 200 => responses[k].body.stack \notin ResolutionErrors
    /\ \A n \in 1..Len(resolved) :
          /\ resolved[n].drug = n
          /\ (resolved[n].candidate = JNull \/ ~resolved[n].valid) =>
                /\ n <= Len(DrugList(extracted_data))
                /\ "image_url" \in DOMAIN DrugList(extracted_data)[n].d
                /\ DrugList(extracted_data)[n].d["image_url"] = JStr("Not found")
    /\ pc \in {"loop", "search_wait", "fetch_wait", "verify_wait"} =>
          /\ i = Len(resolved) + 1
          /\ responses = <<>>
    /\ Succeeded => Len(resolved) = Len(items)

\* a success in which the search of the first drug failed and the second
\* drug was still resolved, to an accepted link
C3_Witness ==
    /\ Succeeded
    /\ Len(resolved) = 2
    /\ resolved[1].candidate = JNull
    /\ answers[1].kind \in {"error", "no_items_key", "empty", "no_link"}
    /\ resolved[2].valid
    /\ DrugList(responses[1].body.data)[2].d["image_url"] = resolved[2].candidate

PcValues ==
    {"read", "open", "extract_wait", "loop", "search_wait", "fetch_wait",
     "verify_wait", "done"}

WellFormed(r) ==
    \/ /\ IsSuccess(r)
       /\ DOMAIN r.body = {"status", "data"}
       /\ r.body.data.t = "dict"
       /\ ~HasNaN(r.body.data)
    \/ /\ IsError(r)
       /\ "data" \notin DOMAIN r.body

\* C4: a request ends with exactly one envelope, HTTP 200 with status
\* "success" and a data record or HTTP 500 with status "error" and a
\* non-empty message; an exception of any stage ends in the 500 envelope.
C4_ExactlyOneEnvelope ==
    /\ pc \in PcValues
    /\ Len(responses) <= 1
    /\ pc = "done" <=> Len(responses) = 1
    /\ \A k \in 1..Len(responses) : WellFormed(responses[k])

\* the exception of the last stage, building the response, was caught
C4_Witness ==
    /\ pc = "done"
    /\ Len(resolved) = 1
    /\ responses =
         <<ErrorResponse("ValueError: Out of range float values are not JSON compliant")>>

\* reply[a..b] is a JSON object and the reply as a whole is no JSON
Embeds(reply, a, b) ==
    /\ a <= b
    /\ ~Loads(reply).ok
    /\ Loads(SubSeq(reply, a, b)).ok
    /\ Loads(SubSeq(reply, a, b)).val.t = "dict"

Before(reply, a) == SubSeq(reply, 1, a - 1)
After(reply, b) == SubSeq(reply, b + 1, Len(reply))

\* words, braces and quoted braces
ProseTokens == {"p", "{", "}", "q"}

IsProse(toks) == \A j \in 1..Len(toks) : toks[j] \in ProseTokens

\* C5 as stated: a reply that is one JSON object inside any prose is parsed
\* to that object.
C5_AnyProse ==
    [][(pc = "extract_wait" /\ text' # NoText) =>
         \A a, b \in 1..Len(text') :
            (/\ Embeds(text', a, b)
             /\ IsProse(Before(text', a))
             /\ IsProse(After(text', b)))
            => extracted_data' = Loads(SubSeq(text', a, b)).val]_vars

\* C5: a reply that is no JSON as a whole and holds one JSON object, with no
\* "{" before the object and no "}" after it, is parsed to that object.
C5_BraceFreeProse ==
    [][(pc = "extract_wait" /\ text' # NoText) =>
         \A a, b \in 1..Len(text') :
            (/\ Embeds(text', a, b)
             /\ Opens(Before(text', a)) = {}
             /\ Closes(After(text', b)) = {})
            => extracted_data' = Loads(SubSeq(text', a, b)).val]_vars

\* a nested object between two words was recovered and the request succeeded
C5_Witness ==
    /\ Succeeded
    /\ text = <<"p", "{", "diagnosis:", "{", "}", "}">>
    /\ responses[1].body.data.d["diagnosis"] = JDict(EmptyDict)

\* neither the whole reply nor its first-"{"-to-last-"}" span is JSON
Unrecoverable(reply) ==
    /\ ~Loads(reply).ok
    /\ ~(SearchBraces(reply).found /\ Loads(SearchBraces(reply).span).ok)

\* C6: a reply that parses neither as a whole nor by its span ends the
\* request with the 500 envelope of the parse error, the same for every such
\* reply, and the only external call of the request is the extraction.
C6_StrictParsePolicy ==
    (text # NoText /\ Unrecoverable(text)) =>
        /\ pc = "done"
        /\ responses = <<ErrorResponse("ValueError: Failed to parse Gemini response as JSON")>>
        /\ calls = <<ExtractCall>>
        /\ extracted_data = JNull

\* a reply with a "{...}" span that is no JSON was refused
C6_Witness ==
    /\ pc = "done"
    /\ text # NoText
    /\ Unrecoverable(text)
    /\ SearchBraces(text).found

\* C7: every external call is issued with a bounded timeout.
C7_EveryCallHasTimeout ==
    \A k \in 1..Len(calls) : calls[k].timeout # {}

\* C8: an upload that is no image ends with the 500 envelope and a non-empty
\* message, and no external call is issued for it.
C8_UndecodableUploadFails ==
    upload = "not_image" =>
        /\ calls = <<>>
        /\ pending = NoCall
        /\ text = NoText
        /\ pc \in {"read", "open", "done"}
        /\ pc = "done" => (Len(responses) = 1 /\ IsError(responses[1]))

C8_Witness ==
    /\ upload = "not_image"
    /\ pc = "done"
    /\ responses = <<ErrorResponse("UnidentifiedImageError")>>

\* the record as parsed from the reply
Parsed == ParseReply(text).val

C9_Order ==
    /\ calls # <<>> => (upload = "image" /\ calls[1] = ExtractCall)
    /\ \A k \in 2..Len(calls) :
          /\ text # NoText
          /\ ~ParseReply(text).raised
          /\ calls[k].kind \in {"search", "fetch", "model_verify"}
          /\ calls[k].kind = "search" =>
                /\ calls[k].drug = calls[k - 1].drug + 1
                /\ calls[k].drug <= Len(DrugList(Parsed))
                /\ GetName(DrugList(Parsed)[calls[k].drug]) = Returned(calls[k].arg)
          /\ calls[k].kind = "fetch" =>
                /\ calls[k - 1].kind = "search"
                /\ calls[k - 1].drug = calls[k].drug
          /\ calls[k].kind = "model_verify" =>
                /\ calls[k - 1].kind = "fetch"
                /\ calls[k - 1].drug = calls[k].drug
    /\ pc \in {"loop", "search_wait", "fetch_wait", "verify_wait"} =>
          /\ responses = <<>>
          /\ DOMAIN extracted_data.d = DOMAIN Parsed.d
    /\ responses # <<>> => (pc = "done" /\ pending = NoCall)
    /\ Succeeded =>
          LET ds == DrugList(responses[1].body.data) IN
          /\ Len(resolved) = Len(items)
          /\ Len(ds) = Len(DrugList(Parsed))
          /\ \A n \in 1..Len(ds) :
                /\ resolved[n].drug = n
                /\ "image_url" \in DOMAIN ds[n].d
                /\ ds[n] = JDict(Put(DrugList(Parsed)[n].d, "image_url",
                                     ds[n].d["image_url"]))

\* C9: one linear pass: decode, then the extraction call, then for each drug
\* in list order its search, fetch and verification, then the filling of
\* missing keys and the response; the drugs keep their order in the
\* response; nothing is called once a response exists.
C9_LinearPass ==
    /\ []C9_Order
    /\ [][responses # <<>> => (calls' = calls /\ responses' = responses)]_vars

\* a success over two drugs, each searched, fetched and verified
C9_Witness ==
    /\ Succeeded
    /\ Len(calls) = 7
    /\ calls[4].kind = "model_verify"
    /\ calls[7].kind = "model_verify"

CallsOf(kind, n) == {k \in 1..Len(calls) : calls[k].kind = kind /\ calls[k].drug = n}

\* C10: one extraction call once the image decoded; per drug entry at most
\* one search, one fetch and one verification; fetch and verification only
\* after a search answer with at least one item, and only for its first item.
C10_NoRetry ==
    /\ Cardinality(CallsOf("model_extract", 0)) =
          (IF pc \in {"read", "open"} \/ upload # "image" THEN 0 ELSE 1)
    /\ \A k \in 1..Len(calls) :
          /\ Cardinality(CallsOf(calls[k].kind, calls[k].drug)) = 1
          /\ calls[k].kind \in {"fetch", "model_verify"} =>
                /\ calls[k].drug <= Len(answers)
                /\ answers[calls[k].drug].kind = "items"
                /\ Len(answers[calls[k].drug].links) >= 1
          /\ calls[k].kind = "fetch" =>
                calls[k].arg = JStr(answers[calls[k].drug].links[1])
    /\ \A n \in 1..Len(answers) : Cardinality(CallsOf("search", n)) = 1
    /\ \A n \in 1..Len(resolved) :
          resolved[n].candidate # JNull =>
             /\ answers[n].kind = "items"
             /\ resolved[n].candidate = JStr(answers[n].links[1])

\* one drug whose search had no item and was not searched again, one whose
\* search had two different items and whose first item alone was fetched
C10_Witness ==
    /\ pc = "done"
    /\ Len(answers) = 2
    /\ answers[1].kind = "empty"
    /\ Cardinality({k \in 1..Len(calls) : calls[k].drug = 1}) = 1
    /\ answers[2].links = <<"u1", "u2">>
    /\ CallsOf("fetch", 2) # {}
    /\ \A k \in 1..Len(calls) : calls[k].arg # JStr("u2")

====
